---- MODULE Spec2Model ----
(***************************************************************************)
(* Model of src/src/ExperimentClass.py: the Experiment driver (circuits,   *)
(* result, fidelities), its six circuit builders, the batch run, the       *)
(* fidelity scoring and the two accessors.                                 *)
(*                                                                         *)
(* The backend (transpile, scheduling, padding, sampling) is a black box:  *)
(* what it returns is drawn from small sets.  Real-valued delays are kept  *)
(* as integers in units of 0.025 us (8 us = 320 units), fidelities as      *)
(* integers in thousandths.                                                *)
(***************************************************************************)
EXTENDS Integers, Sequences, FiniteSets, TLC

VARIABLES
    numQubits,               \* self.numQubits
    initialLayout,           \* self.initialLayout
    initialLayoutWithBuffer, \* self.initialLayoutWithBuffer
    initialState,            \* self.initialState
    backend,                 \* self.backend: the base gate duration its target reports
    ddSequenceType,          \* self.ddSequenceType
    circuits,                \* self.circuits
    result,                  \* self.result
    fidelities,              \* self.fidelities
    args,                    \* history: the constructor's arguments
    out,                     \* history: the last call, what it returned, printed or raised
    phase,                   \* history: building, executed or scored (empty at first)
    adds,                    \* history: builder calls made, single and sweep
    job,                     \* history: the sampler job self.result came from, 0 before any
    scoredJob,               \* history: the job self.fidelities was scored from, -1 before any
    reduced                  \* history: finalState of the last find_fidelity call

vars == <<numQubits, initialLayout, initialLayoutWithBuffer, initialState,
          backend, ddSequenceType, circuits, result, fidelities, args, out, phase, adds,
          job, scoredJob, reduced>>

config == <<numQubits, initialLayout, initialLayoutWithBuffer, initialState,
            backend, ddSequenceType, args>>

(***************************************************************************)
(* Bounds of the model.                                                    *)
(***************************************************************************)
MaxCircuits == 2  \* builders are called while fewer circuits than this are held
MaxQubits == 7    \* largest numQubits passed to the constructor
MaxDur == 8       \* largest base duration the scheduler reports
NumJobs == 2      \* distinct outcomes the sampler can return for one circuit
MaxCount == 2     \* largest count of one bitstring in the raw results of SpecFid

(***************************************************************************)
(* Program constants.                                                      *)
(***************************************************************************)
DefaultNumQubits == 9
SweepLen == 45
Granularity == 8
InitialSlots == 320     \* slots = 8 (us), in units of 0.025 us
Slots075 == 30          \* 0.75 us
Slots05 == 20           \* 0.5 us
Slots005 == 2           \* 0.05 us
Slots0025 == 1          \* 0.025 us
DefaultLayout == <<4, 3, 5, 15, 22, 2, 1, 6, 7>>
DefaultLayoutWithBuffer == <<4, 3, 5, 22, 23, 1, 0, 7, 8>>
IdealDistribution ==
    (<<1,1,1>> :> 968) @@ (<<1,0,1>> :> 8) @@ (<<0,1,1>> :> 8) @@ (<<1,1,0>> :> 8)
    @@ (<<1,0,0>> :> 8) @@ (<<0,1,0>> :> 8) @@ (<<0,0,1>> :> 8) @@ (<<0,0,0>> :> 8)

(***************************************************************************)
(* Python helpers.                                                         *)
(***************************************************************************)
\* range(a, b, s)
Range(a, b, s) == {k \in a..(b - 1) : (k - a) % s = 0}

\* A layout of n physical qubits passed by the caller.
CallerLayout(n) == [k \in 1..n |-> k - 1]

\* A call that returned None and printed nothing.
NoOut(op) == [op |-> op, raised |-> FALSE, warned |-> FALSE, returned |-> "None"]

(***************************************************************************)
(* __init__                                                                *)
(***************************************************************************)
Construct(n, layout, layoutWithBuffer, b, state, dd) ==
    /\ numQubits = (IF n # 0 THEN n ELSE DefaultNumQubits)
    /\ initialLayout = (IF Len(layout) # 0 THEN layout ELSE DefaultLayout)
    /\ initialLayoutWithBuffer =
           (IF Len(layoutWithBuffer) # 0 THEN layoutWithBuffer
            ELSE DefaultLayoutWithBuffer)
    /\ initialState = state
    /\ backend = b
    /\ ddSequenceType = dd
    /\ circuits = <<>>
    /\ result = <<>>
    /\ fidelities = <<>>
    /\ args = [numQubits |-> n, initialLayout |-> layout,
               initialLayoutWithBuffer |-> layoutWithBuffer]
    /\ out = NoOut("__init__")
    /\ phase = "empty"
    /\ adds = [single |-> 0, sweep |-> 0]
    /\ job = 0
    /\ scoredJob = -1
    /\ reduced = <<>>

(***************************************************************************)
(* Pieces shared by the builders (the code repeats them in each builder).  *)
(***************************************************************************)
\* for k in range(3, self.numQubits, 2): qc.x(q[k]) / qc.h(q[k])
PrepQubits == IF initialState \in {1, 2} THEN Range(3, numQubits, 2) ELSE {}

\* QuantumRegister(...) of a builder, without and with buffer qubits
RegSize(spacing) ==
    IF spacing THEN numQubits + ((numQubits - 3) \div 2) ELSE numQubits

\* the qubit pairs of qc.cx in one attack round
AttackPairs(spacing) ==
    IF spacing THEN {<<k + 1, k + 2>> : k \in Range(3, numQubits, 3)}
    ELSE {<<k, k + 1>> : k \in Range(3, numQubits, 2)}

\* q[a] of a register of nreg qubits raises IndexError unless 0 <= a < nreg
InRegister(a, nreg) == 0 <= a /\ a < nreg

\* NextSlots without the i < 20 guard on the halving branch
NextSlots_HalveAlways(i, slots) ==
    IF i % 5 = 0 THEN slots \div 2
    ELSE IF i >= 20 /\ i < 25 THEN Slots075
    ELSE IF i >= 25 /\ i < 30 THEN Slots05
    ELSE IF i >= 30 /\ i < 35 THEN Slots005
    ELSE IF i >= 35 /\ i < 40 THEN Slots0025
    ELSE slots

\* NextSlots with the 0.75 and 0.5 steps exchanged
NextSlots_Swapped(i, slots) ==
    IF i < 20 /\ i % 5 = 0 THEN slots \div 2
    ELSE IF i >= 20 /\ i < 25 THEN Slots05
    ELSE IF i >= 25 /\ i < 30 THEN Slots075
    ELSE IF i >= 30 /\ i < 35 THEN Slots005
    ELSE IF i >= 35 /\ i < 40 THEN Slots0025
    ELSE slots

\* the slots update at the top of sweep iteration i
NextSlots(i, slots) ==
    IF i < 20 /\ i % 5 = 0 THEN slots \div 2
    ELSE IF i >= 20 /\ i < 25 THEN Slots075
    ELSE IF i >= 25 /\ i < 30 THEN Slots05
    ELSE IF i >= 30 /\ i < 35 THEN Slots005
    ELSE IF i >= 35 /\ i < 40 THEN Slots0025
    ELSE slots

\* initial_layout= of transpile: the attribute a builder passes, by name (the
\* attributes are never reassigned after __init__)
LayoutOf(spacing) == IF spacing THEN "initialLayoutWithBuffer" ELSE "initialLayout"

\* the list that attribute holds
LayoutNamed(name) ==
    IF name = "initialLayoutWithBuffer" THEN initialLayoutWithBuffer ELSE initialLayout

\* dd_sequence
DDSequence ==
    IF ddSequenceType = 1 THEN <<"x", "y", "x", "y">> ELSE <<"x", "x">>

\* Instruction durations of the scheduled circuit, as the backend reports them:
\* gates of base duration `backend`, and the delay of `slots` when an attack
\* round was added.
Scheduled(i, slots, pairs) ==
    <<backend, backend + i>> \o (IF pairs # {} THEN <<slots>> ELSE <<>>)

\* RoundDuration rounding down instead of up
RoundDuration_Floor(d) == (d \div Granularity) * Granularity

\* if item[0].duration % 8: item[0].duration = ((item[0].duration // 8) + 1) * 8
RoundDuration(d) ==
    IF d % Granularity # 0 THEN ((d \div Granularity) + 1) * Granularity ELSE d

\* for item in circ_dd.data: ...
RoundingPass(durations) == [k \in DOMAIN durations |-> RoundDuration(durations[k])]

\* One finished circuit, as appended to self.circuits.  `padded` keeps the
\* durations dd_pm.run returned, before the rounding pass changed them in place.
Variant(builder, i, slots, spacing, dd) ==
    LET attacked == builder \notin {"addNoAttackCircuit", "addNoAttackPlusDDCircuit"}
        \* for j in range(i): no round, and so no qc.cx, when i = 0
        pairs == IF attacked /\ i > 0 THEN AttackPairs(spacing) ELSE {}
        sched == Scheduled(i, slots, pairs)
    IN  [builder |-> builder, i |-> i, slots |-> slots, nreg |-> RegSize(spacing),
         prep |-> PrepQubits, cx |-> pairs,
         layout |-> LayoutOf(spacing),
         dd |-> IF dd THEN DDSequence ELSE <<>>,
         padded |-> IF dd THEN sched ELSE <<>>,
         durations |-> IF dd THEN RoundingPass(sched) ELSE sched]

\* for i in range(45): ... self.circuits.append(...); stops at the first
\* iteration whose qc.cx / qc.delay names a qubit outside the register.
RECURSIVE SweepLoop(_, _, _, _, _, _)
SweepLoop(i, slots, acc, builder, spacing, dd) ==
    IF i = SweepLen THEN [circs |-> acc, raised |-> FALSE]
    ELSE LET s == NextSlots(i, slots)
             nreg == RegSize(spacing)
             bad == i > 0 /\ \E p \in AttackPairs(spacing) :
                        ~InRegister(p[1], nreg) \/ ~InRegister(p[2], nreg)
         IN  IF bad THEN [circs |-> acc, raised |-> TRUE]
             ELSE SweepLoop(i + 1, s, Append(acc, Variant(builder, i, s, spacing, dd)),
                            builder, spacing, dd)

CanAdd == Len(circuits) < MaxCircuits

AddSingle(builder, dd) ==
    /\ CanAdd
    /\ circuits' = Append(circuits, Variant(builder, 0, 0, FALSE, dd))
    /\ adds' = [adds EXCEPT !.single = @ + 1]
    /\ out' = NoOut(builder)
    /\ phase' = "building"
    /\ UNCHANGED <<config, result, fidelities, job, scoredJob, reduced>>

AddSweep(builder, spacing, dd) ==
    /\ CanAdd
    /\ LET r == SweepLoop(0, InitialSlots, <<>>, builder, spacing, dd)
       IN  /\ circuits' = circuits \o r.circs
           /\ out' = [NoOut(builder) EXCEPT !.raised = r.raised]
    /\ adds' = [adds EXCEPT !.sweep = @ + 1]
    /\ phase' = "building"
    /\ UNCHANGED <<config, result, fidelities, job, scoredJob, reduced>>

(***************************************************************************)
(* The six builders.                                                       *)
(***************************************************************************)
addNoAttackCircuit == AddSingle("addNoAttackCircuit", FALSE)

addNoAttackPlusDDCircuit == AddSingle("addNoAttackPlusDDCircuit", TRUE)

addAttackWithoutMitigationCircuits ==
    AddSweep("addAttackWithoutMitigationCircuits", FALSE, FALSE)

addAttackWithDDCircuits == AddSweep("addAttackWithDDCircuits", FALSE, TRUE)

addAttackWithSpacingCircuits == AddSweep("addAttackWithSpacingCircuits", TRUE, FALSE)

addAttackWithDDAndSpacingCircuits ==
    AddSweep("addAttackWithDDAndSpacingCircuits", TRUE, TRUE)

(***************************************************************************)
(* runAllCircuits and getResult.                                           *)
(***************************************************************************)
Ones(n) == [k \in 1..n |-> 1]

Zeros(n) == [k \in 1..n |-> 0]

FlipFirst(n) == [k \in 1..n |-> IF k = 1 THEN 0 ELSE 1]

\* jobResult[i].join_data().get_counts(): the counts job `seed` observed for
\* circuit c, keyed by the bitstrings of its classical register.
GetCounts(seed, c) ==
    LET noise == 20 * seed + c.i + 5 * Len(c.dd)
    IN  (Ones(c.nreg) :> 1000 - noise) @@ (FlipFirst(c.nreg) :> seed)
        @@ (Zeros(c.nreg) :> noise)

\* CollectResult without the reset of self.result
CollectResult_Extend(old, seed) ==
    old \o [i \in 1..Len(circuits) |-> GetCounts(seed, circuits[i])]

\* self.result = []; for i in range(len(self.circuits)): self.result.append(...)
CollectResult(old, seed) == [i \in 1..Len(circuits) |-> GetCounts(seed, circuits[i])]

runAllCircuits ==
    /\ \E seed \in 1..NumJobs :
           /\ result' = CollectResult(result, seed)
           /\ job' = seed
    /\ out' = NoOut("runAllCircuits")
    /\ phase' = "executed"
    /\ UNCHANGED <<config, circuits, fidelities, adds, scoredJob, reduced>>

\* getResult raising instead of warning when there is no result
getResult_Raises ==
    /\ out' = IF Len(result) = 0
              THEN [op |-> "getResult", raised |-> TRUE, warned |-> FALSE,
                    returned |-> "None"]
              ELSE [op |-> "getResult", raised |-> FALSE, warned |-> FALSE,
                    returned |-> "self.result"]
    /\ UNCHANGED <<config, circuits, result, fidelities, phase, adds, job,
                   scoredJob, reduced>>

getResult ==
    /\ out' = [op |-> "getResult", raised |-> FALSE,
               warned |-> (Len(result) = 0), returned |-> "self.result"]
    /\ UNCHANGED <<config, circuits, result, fidelities, phase, adds, job,
                   scoredJob, reduced>>

(***************************************************************************)
(* calculateFidelityOfDataQubits and getFidelities.                        *)
(***************************************************************************)
\* key[-3:]
LastThree(key) ==
    IF Len(key) <= 3 THEN key ELSE SubSeq(key, Len(key) - 2, Len(key))

\* ReduceKeys assigning the count instead of adding it
RECURSIVE ReduceKeys_Overwrite(_, _, _)
ReduceKeys_Overwrite(counts, keys, finalState) ==
    IF keys = {} THEN finalState
    ELSE LET key == CHOOSE k \in keys : TRUE
             key_prefix == LastThree(key)
             started == IF key_prefix \notin DOMAIN finalState
                        THEN finalState @@ (key_prefix :> 0) ELSE finalState
         IN  ReduceKeys_Overwrite(counts, keys \ {key},
                                  [started EXCEPT ![key_prefix] = counts[key]])

\* for key in counts: ... finalState[key_prefix] += counts[key]
RECURSIVE ReduceKeys(_, _, _)
ReduceKeys(counts, keys, finalState) ==
    IF keys = {} THEN finalState
    ELSE LET key == CHOOSE k \in keys : TRUE
             key_prefix == LastThree(key)
             started == IF key_prefix \notin DOMAIN finalState
                        THEN finalState @@ (key_prefix :> 0) ELSE finalState
         IN  ReduceKeys(counts, keys \ {key},
                        [started EXCEPT ![key_prefix] = @ + counts[key]])

ReduceToDataQubits(counts) == ReduceKeys(counts, DOMAIN counts, <<>>)

RECURSIVE Total(_, _)
Total(f, keys) ==
    IF keys = {} THEN 0
    ELSE LET k == CHOOSE x \in keys : TRUE IN f[k] + Total(f, keys \ {k})

\* floor of the square root, by bisection on lo*lo <= n < hi*hi
RECURSIVE ISqrt(_, _, _)
ISqrt(n, lo, hi) ==
    IF hi - lo <= 1 THEN lo
    ELSE LET mid == (lo + hi) \div 2
         IN  IF mid * mid <= n THEN ISqrt(n, mid, hi) ELSE ISqrt(n, lo, mid)

\* sum over keys of sqrt(p_k / P * q_k / Q), in thousandths
RECURSIVE Overlap(_, _, _, _, _)
Overlap(p, P, q, Q, keys) ==
    IF keys = {} THEN 0
    ELSE LET k == CHOOSE x \in keys : TRUE
             pk == (p[k] * 1000) \div P
             qk == (q[k] * 1000) \div Q
         IN  ISqrt(pk * qk, 0, 1001) + Overlap(p, P, q, Q, keys \ {k})

\* hellinger_fidelity(p, q) = (sum over keys of sqrt(p_k * q_k))^2, in thousandths
HellingerFidelity(p, q) ==
    LET bc == Overlap(p, Total(p, DOMAIN p), q, Total(q, DOMAIN q),
                      DOMAIN p \cap DOMAIN q)
    IN  (bc * bc) \div 1000

find_fidelity(counts) == HellingerFidelity(IdealDistribution, ReduceToDataQubits(counts))

\* CollectFidelities without the reset of self.fidelities
CollectFidelities_Extend(old) ==
    old \o [i \in 1..Len(result) |-> find_fidelity(result[i])]

\* self.fidelities = []; for count in self.result: self.fidelities.append(f)
CollectFidelities(old) == [i \in 1..Len(result) |-> find_fidelity(result[i])]

calculateFidelityOfDataQubits ==
    /\ fidelities' = CollectFidelities(fidelities)
    /\ reduced' = IF Len(result) = 0 THEN reduced
                     ELSE ReduceToDataQubits(result[Len(result)])
    /\ scoredJob' = job
    /\ phase' = IF phase \in {"executed", "scored"} THEN "scored" ELSE phase
    /\ out' = NoOut("calculateFidelityOfDataQubits")
    /\ UNCHANGED <<config, circuits, result, adds, job>>

getFidelities ==
    /\ out' = [op |-> "getFidelities", raised |-> FALSE,
               warned |-> (Len(fidelities) = 0), returned |-> "self.fidelities"]
    /\ UNCHANGED <<config, circuits, result, fidelities, phase, adds, job,
                   scoredJob, reduced>>

(***************************************************************************)
(* Spec: the default Experiment driven through builders, runs, scores and  *)
(* accessors.                                                              *)
(***************************************************************************)
Init == Construct(0, <<>>, <<>>, MaxDur, 0, 0)

Build ==
    \/ addNoAttackCircuit
    \/ addNoAttackPlusDDCircuit
    \/ addAttackWithoutMitigationCircuits
    \/ addAttackWithDDCircuits
    \/ addAttackWithSpacingCircuits
    \/ addAttackWithDDAndSpacingCircuits

Next ==
    \/ Build
    \/ runAllCircuits
    \/ getResult
    \/ calculateFidelityOfDataQubits
    \/ getFidelities

Spec == Init /\ [][Next]_vars

(***************************************************************************)
(* SpecBuild: the builders under every configuration the constructor       *)
(* accepts: numQubits 0 (unset) or 3..MaxQubits, layouts unset or passed,  *)
(* each initial state.                                                     *)
(***************************************************************************)
InitBuild ==
    \E n \in {0} \cup 3..MaxQubits, passed \in BOOLEAN, state \in 0..2 :
        LET width == IF n = 0 THEN DefaultNumQubits ELSE n
        IN  Construct(n,
                      IF passed THEN CallerLayout(width) ELSE <<>>,
                      IF passed THEN CallerLayout(width + ((width - 3) \div 2)) ELSE <<>>,
                      MaxDur, state, 0)

SpecBuild == InitBuild /\ [][Build]_vars

(***************************************************************************)
(* SpecDD: the three builders that pad and round, for every base duration  *)
(* the backend may report and both decoupling sequences.                   *)
(***************************************************************************)
InitDD ==
    \E b \in 0..MaxDur, dd \in 0..1 : Construct(0, <<>>, <<>>, b, 0, dd)

BuildDD ==
    \/ addNoAttackPlusDDCircuit
    \/ addAttackWithDDCircuits
    \/ addAttackWithDDAndSpacingCircuits

SpecDD == InitDD /\ [][BuildDD]_vars

(***************************************************************************)
(* SpecFid: scoring one executed circuit whose raw result is any mapping   *)
(* from some 5-bit strings to counts 1..MaxCount.                          *)
(***************************************************************************)
RawKeys ==
    {<<1,1,1,1,1>>, <<0,1,1,1,1>>, <<0,0,1,1,1>>, <<1,0,1,0,1>>, <<0,0,0,0,0>>,
     <<1,1,0,0,0>>}

RawResults ==
    UNION {[keys -> 1..MaxCount] : keys \in (SUBSET RawKeys) \ {{}}}

InitFid ==
    \E raw \in RawResults :
        /\ numQubits = 5
        /\ initialLayout = CallerLayout(5)
        /\ initialLayoutWithBuffer = CallerLayout(6)
        /\ initialState = 0
        /\ backend = MaxDur
        /\ ddSequenceType = 0
        /\ circuits = <<[builder |-> "addNoAttackCircuit", i |-> 0, slots |-> 0,
                         nreg |-> 5, prep |-> {}, cx |-> {},
                         layout |-> "initialLayout", dd |-> <<>>, padded |-> <<>>,
                         durations |-> <<MaxDur, MaxDur>>]>>
        /\ result = <<raw>>
        /\ fidelities = <<>>
        /\ args = [numQubits |-> 5, initialLayout |-> CallerLayout(5),
                   initialLayoutWithBuffer |-> CallerLayout(6)]
        /\ out = NoOut("runAllCircuits")
        /\ phase = "executed"
        /\ adds = [single |-> 1, sweep |-> 0]
        /\ job = 1
        /\ scoredJob = -1
        /\ reduced = <<>>

Score ==
    \/ calculateFidelityOfDataQubits
    \/ getFidelities

SpecFid == InitFid /\ [][Score]_vars

(***************************************************************************)
(* Properties.                                                             *)
(***************************************************************************)
SweepBuilders ==
    {"addAttackWithoutMitigationCircuits", "addAttackWithDDCircuits",
     "addAttackWithSpacingCircuits", "addAttackWithDDAndSpacingCircuits"}

SingleBuilders == {"addNoAttackCircuit", "addNoAttackPlusDDCircuit"}

\* result[i] is what the job that filled result observed for circuits[i]
ResultAligned ==
    /\ Len(result) <= Len(circuits)
    /\ \A i \in 1..Len(result) : result[i] = GetCounts(job, circuits[i])

\* C1 (as claimed): in every reachable state result[i] is the outcome of
\* circuits[i] and fidelities[i] is the score of the current result[i].
C1_AlignedWithCurrentResult ==
    /\ ResultAligned
    /\ Len(fidelities) <= Len(result)
    /\ \A i \in 1..Len(fidelities) : fidelities[i] = find_fidelity(result[i])

\* C1 (amended): in every reachable state result[i] is the outcome of
\* circuits[i]; fidelities[i] is the score of the result[i] that was current
\* when calculateFidelityOfDataQubits last ran, an outcome of circuits[i]; it
\* is the score of the current result[i] while result still holds that outcome.
C1_AlignedWithScoredResult ==
    /\ ResultAligned
    /\ Len(fidelities) <= Len(result)
    /\ \A i \in 1..Len(fidelities) :
           fidelities[i] = find_fidelity(GetCounts(scoredJob, circuits[i]))
    /\ scoredJob = job =>
           \A i \in 1..Len(fidelities) : fidelities[i] = find_fidelity(result[i])

\* a run made after a score, with another outcome, and an add made before it
C1_Witness ==
    /\ Len(fidelities) > 0
    /\ scoredJob # job
    /\ Len(result) > Len(fidelities)

\* C2: after builders, then runAllCircuits, then calculateFidelityOfDataQubits
\* with no builder call in between (phase "scored"), the three collections
\* have the same length, whatever ran before.
C2_FullPipelineLengths ==
    phase = "scored" =>
        /\ Len(circuits) = Len(result)
        /\ Len(result) = Len(fidelities)

C2_Witness ==
    /\ phase = "scored"
    /\ out.op = "calculateFidelityOfDataQubits"
    /\ Len(fidelities) >= 2

\* C3: getResult and getFidelities never raise and leave circuits, result and
\* fidelities unchanged; called before runAllCircuits (before
\* calculateFidelityOfDataQubits) has run, they warn and return an empty
\* collection.
C3_AccessorsWarnAndReturn ==
    [][/\ out'.op = "getResult" =>
              /\ ~out'.raised
              /\ out'.returned = "self.result"
              /\ UNCHANGED <<circuits, result, fidelities>>
              /\ job = 0 => out'.warned /\ result' = <<>>
       /\ out'.op = "getFidelities" =>
              /\ ~out'.raised
              /\ out'.returned = "self.fidelities"
              /\ UNCHANGED <<circuits, result, fidelities>>
              /\ scoredJob = -1 => out'.warned /\ fidelities' = <<>>
      ]_vars

C3_Witness ==
    /\ out.op = "getResult"
    /\ out.warned
    /\ job = 0
    /\ Len(circuits) > 0

\* C4: every builder call appends its variants at the end, 1 for the two
\* single builders and 45 in sweep-index order for the four sweep builders,
\* keeps the earlier entries and leaves result and fidelities unchanged, so
\* len(circuits) = singles + 45 * sweeps.
C4_AppendOnly ==
    [][out'.op \in SingleBuilders \cup SweepBuilders =>
           /\ Len(circuits') = adds'.single + SweepLen * adds'.sweep
           /\ SubSeq(circuits', 1, Len(circuits)) = circuits
           /\ out'.op \in SweepBuilders =>
                  \A k \in 1..(Len(circuits') - Len(circuits)) :
                      circuits'[Len(circuits) + k].i = k - 1
           /\ UNCHANGED <<result, fidelities>>
      ]_vars

\* C5: the rounding pass maps each duration d of the padded circuit to r with
\* r % 8 = 0, r >= d and r - d < 8, so afterwards every instruction duration
\* is a multiple of 8 and a multiple of 8 is left as it was.
C5_RoundedUpToGranularity ==
    \A n \in 1..Len(circuits) :
        LET c == circuits[n]
        IN  /\ Len(c.dd) > 0
            /\ Len(c.durations) = Len(c.padded)
            /\ \A k \in 1..Len(c.padded) :
                   /\ c.durations[k] % 8 = 0
                   /\ c.durations[k] >= c.padded[k]
                   /\ c.durations[k] - c.padded[k] < 8

C5_Witness ==
    \E n \in 1..Len(circuits) :
        /\ \E k \in 1..Len(circuits[n].padded) :
               circuits[n].padded[k] % 8 # 0 /\ circuits[n].padded[k] > 8
        /\ \E k \in 1..Len(circuits[n].padded) :
               circuits[n].padded[k] % 8 = 0 /\ circuits[n].padded[k] > 0

\* C6: the reduction maps each 3-character suffix s to the sum of the counts
\* of the raw keys ending in s, has no other suffix, keeps the total count and
\* leaves the raw result as it was.
C6_ReductionSumsBySuffix ==
    [][out'.op = "calculateFidelityOfDataQubits" /\ Len(result) > 0 =>
           LET raw == result[Len(result)]
               EndsIn(key, s) == \E head \in 0..Len(key) :
                                     /\ Len(key) - head = 3
                                     /\ \A j \in 1..3 : key[head + j] = s[j]
           IN  /\ result' = result
               /\ \A key \in DOMAIN raw : \E s \in DOMAIN reduced' : EndsIn(key, s)
               /\ \A s \in DOMAIN reduced' :
                      /\ \E key \in DOMAIN raw : EndsIn(key, s)
                      /\ reduced'[s] =
                             Total(raw, {key \in DOMAIN raw : EndsIn(key, s)})
               /\ Total(reduced', DOMAIN reduced') = Total(raw, DOMAIN raw)
      ]_vars

\* two raw keys collided on one suffix and another suffix is present
C6_Witness ==
    /\ out.op = "calculateFidelityOfDataQubits"
    /\ Cardinality(DOMAIN reduced) >= 2
    /\ Cardinality(DOMAIN result[1]) > Cardinality(DOMAIN reduced)

\* the schedule of C7, in units of 0.025 us
ScheduleAt(i) ==
    IF i < 5 THEN 160 ELSE IF i < 10 THEN 80 ELSE IF i < 15 THEN 40
    ELSE IF i < 20 THEN 20 ELSE IF i < 25 THEN 30 ELSE IF i < 30 THEN 20
    ELSE IF i < 35 THEN 2 ELSE 1

\* C7: in each sweep builder, at every call, variant i uses slots = 4, 2, 1,
\* 0.5 on [0,5), [5,10), [10,15), [15,20), then 0.75, 0.5, 0.05, 0.025 on
\* [20,25), [25,30), [30,35), [35,40), and 0.025 on [40,45).
C7_SlotsSchedule ==
    \A n \in 1..Len(circuits) :
        circuits[n].builder \in SweepBuilders =>
            circuits[n].slots = ScheduleAt(circuits[n].i)

C7_Witness ==
    \E n \in 1..Len(circuits) :
        /\ circuits[n].builder \in SweepBuilders
        /\ circuits[n].i = 44
        /\ circuits[n].slots = 1

\* circuits[a] and circuits[b] are variants of one sweep builder call, a first
SameSweep(a, b) ==
    /\ a < b
    /\ circuits[a].builder \in SweepBuilders
    /\ \A m \in a..b :
           /\ circuits[m].builder = circuits[a].builder
           /\ circuits[m].i - circuits[a].i = m - a

\* C8 (as claimed): within one sweep builder call slots(j) <= slots(i) for all
\* sweep indices i < j.
C8_SlotsDecrease ==
    \A a, b \in 1..Len(circuits) :
        SameSweep(a, b) => circuits[b].slots <= circuits[a].slots

\* C8 (amended): within one sweep builder call slots(j) <= slots(i) for all
\* sweep indices i < j, except for i in [15,20) and j in [20,25), where slots
\* rises from 0.5 to 0.75.
C8_SlotsDecreaseButAt20 ==
    \A a, b \in 1..Len(circuits) :
        SameSweep(a, b) =>
            IF circuits[a].i \in 15..19 /\ circuits[b].i \in 20..24
            THEN circuits[a].slots = 20 /\ circuits[b].slots = 30
            ELSE circuits[b].slots <= circuits[a].slots

C8_Witness ==
    \E a, b \in 1..Len(circuits) :
        /\ SameSweep(a, b)
        /\ circuits[a].i = 0
        /\ circuits[b].i = 44

\* C9: for every numQubits >= 3 no builder raises on an out-of-range qubit:
\* every qubit of state preparation and of the attack pairs lies inside the
\* register the builder allocated.
C9_QubitsInRegister ==
    numQubits >= 3 =>
        /\ ~out.raised
        /\ \A sp \in BOOLEAN :
               \A p \in AttackPairs(sp) :
                   out.op \in SweepBuilders =>
                       InRegister(p[1], RegSize(sp)) /\ InRegister(p[2], RegSize(sp))
        /\ \A n \in 1..Len(circuits) :
               /\ \A q \in circuits[n].prep : InRegister(q, circuits[n].nreg)
               /\ \A p \in circuits[n].cx :
                      InRegister(p[1], circuits[n].nreg)
                      /\ InRegister(p[2], circuits[n].nreg)

\* C10: with every constructor argument defaulted, initialLayout has at least
\* numQubits entries and the layout each builder hands to transpile covers the
\* register it allocated; arguments that are passed are stored unchanged.
C10_DefaultsFitRegisters ==
    /\ args.numQubits # 0 => numQubits = args.numQubits
    /\ Len(args.initialLayout) # 0 => initialLayout = args.initialLayout
    /\ Len(args.initialLayoutWithBuffer) # 0 =>
           initialLayoutWithBuffer = args.initialLayoutWithBuffer
    /\ (args.numQubits = 0 /\ Len(args.initialLayout) = 0
        /\ Len(args.initialLayoutWithBuffer) = 0) =>
           /\ numQubits = DefaultNumQubits
           /\ Len(initialLayout) >= numQubits
           /\ \A n \in 1..Len(circuits) :
                  Len(LayoutNamed(circuits[n].layout)) >= circuits[n].nreg

====
